---- MODULE Spec2Model ----
(***************************************************************************)
(* Model of server/src/main.rs of OpenPlanningPoker: the user store and    *)
(* the session store (two HashMaps, each behind its own std::sync::Mutex), *)
(* the two warp handlers that run on the worker threads of the tokio       *)
(* runtime, and the clean_up_sessions task.                                *)
(*                                                                         *)
(* Time is SystemTime in whole seconds since an arbitrary origin; the      *)
(* clock only moves forward.  Uuid::new_v4 is modelled as a generator of   *)
(* fresh values: a Uuid is opaque and only compared for equality, so the   *)
(* two draws of the i-th create request are named 2i-1 and 2i.             *)
(* The tokio interval of the clean-up task runs on the      *)
(* monotonic Instant clock, which is unrelated to SystemTime, so its tick  *)
(* may fire at any SystemTime.                                             *)
(***************************************************************************)
EXTENDS Integers, Sequences, FiniteSets, TLC

\* ------------------------------------------------------------------ bounds
MaxTicks == 2           \* number of times the clock is seen to advance

\* --------------------------------------------------------------- constants
TTL == 30               \* Duration::from_secs(30)
MinLen == 3
MaxLen == 20

\* The threads: two POST /session requests, one GET /session request and
\* the clean-up task
Creators == {<<"create", 1>>, <<"create", 2>>}
Lookups == {<<"lookup", 1>>}
Reaper == <<"reaper", 0>>
NoOne == <<"none", 0>>

\* Option<T> as a set with at most one element
None == {}
Some(x) == {x}
Unwrap(o) == CHOOSE x \in o : TRUE

\* a generator that repeats itself
new_v4_fixed(c, k) == k

\* Uuid::new_v4: the k-th draw (k = 1, 2) of create request c
new_v4(c, k) == 2 * (c[2] - 1) + k
\* Uuids a cookie can carry: the generated ones and one never issued
CookieUuids == 1..(2 * Cardinality(Creators) + 1)

\* Amounts by which the clock is seen to advance between two steps
Deltas == {1, TTL}

\* ------------------------------------------------------------- characters
\* A character is a record: its UTF-8 width and char::is_alphanumeric
Ch(n, w, a) == [c |-> n, width |-> w, alnum |-> a]
ch_a == Ch("a", 1, TRUE)
ch_b == Ch("b", 1, TRUE)
ch_7 == Ch("7", 1, TRUE)
ch_dash == Ch("-", 1, FALSE)
ch_eacute == Ch("e_acute", 2, TRUE)

RECURSIVE ByteLen(_)
\* str::len: the length in bytes
ByteLen(s) == IF s = <<>> THEN 0 ELSE Head(s).width + ByteLen(Tail(s))

\* str::chars().all(char::is_alphanumeric)
AllAlphanumeric(s) == \A i \in 1..Len(s) : s[i].alnum

\* Username::is_valid
is_valid(username) ==
    LET len == ByteLen(username)
    IN  len >= MinLen /\ len <= MaxLen /\ AllAlphanumeric(username)

\* Username::new
Username_new(username) ==
    IF is_valid(username)
    THEN [ok |-> TRUE, value |-> username]
    ELSE [ok |-> FALSE, value |-> <<>>]

\* User::new without the validation of the name
User_new_unchecked(name, uuid) ==
    [ok |-> TRUE,
     value |-> [uuid |-> uuid, name |-> name, current_table_id |-> None]]

\* User::new, given the value Uuid::new_v4 returned
User_new(name, uuid) ==
    LET username == Username_new(name)
    IN  IF username.ok
        THEN [ok |-> TRUE,
              value |-> [uuid |-> uuid, name |-> username.value,
                         current_table_id |-> None]]
        ELSE [ok |-> FALSE,
              value |-> [uuid |-> uuid, name |-> <<>>,
                         current_table_id |-> None]]

\* Session::new that stores its own id as the user reference
Session_new_selfref(user_id, duration, uuid, t) ==
    [session_id |-> uuid, user_id |-> uuid, expires_at |-> t + duration]

\* Session::new, given the value Uuid::new_v4 returned and SystemTime::now
Session_new(user_id, duration, uuid, t) ==
    [session_id |-> uuid, user_id |-> user_id, expires_at |-> t + duration]

\* is_expired with a second of grace
is_expired_late(session, t) == t > session.expires_at + 1

\* Session::is_expired, given SystemTime::now
is_expired(session, t) == t > session.expires_at

\* The usernames the requests carry
bob == <<ch_b, ch_a, ch_b>>
ab7 == <<ch_a, ch_b, ch_7>>
ab == <<ch_a, ch_b>>
RequestNames == {bob, ab7, ab}

\* --------------------------------------------------------------- the state
VARIABLES
    now,              \* SystemTime::now, in seconds
    ticks,            \* how many times the clock advanced
    user_store,       \* HashMap<Uuid, User>
    session_store,    \* HashMap<Uuid, Session>
    user_lock,        \* holder of the user store mutex
    session_lock,     \* holder of the session store mutex
    cpc,              \* create_session_handler: position of each request
    cname,            \* new_session_req.username
    cuser,            \* user
    csession,         \* session
    cresponse,        \* the response returned
    lpc,              \* get_user_info_handler: position of each request
    larg,             \* session_id: Option<Uuid>
    lsession,         \* session found in the session store
    lresult,          \* the reply or the rejection
    lfetched_at,      \* history: the time of the session store lookup
    rpc,              \* clean_up_sessions: position
    rtodo,            \* sessions the running iteration has yet to visit
    expired_user_ids, \* expired_user_ids
    sweepExpired,     \* history: sessions expired when the sweep started
    sweepLive,        \* history: sessions not expired then, with their users
    sweepRemoved,     \* history: sessions the running sweep removed
    everRemoved       \* history: some sweep removed an entry

cvars == <<cpc, cname, cuser, csession, cresponse>>
lvars == <<lpc, larg, lsession, lresult, lfetched_at>>
rvars == <<rpc, rtodo, expired_user_ids, sweepExpired, sweepLive,
          sweepRemoved, everRemoved>>
stores == <<user_store, session_store>>
locks == <<user_lock, session_lock>>
clock == <<now, ticks>>
vars == <<now, ticks, user_store, session_store, user_lock,
          session_lock, cpc, cname, cuser, csession, cresponse, lpc, larg,
          lsession, lresult, lfetched_at, rpc, rtodo, expired_user_ids, sweepExpired,
          sweepLive, sweepRemoved, everRemoved>>

\* an insert that rebuilds the map from the new entry alone
Insert_clobber(map, k, v) == [x \in {k} |-> v]

\* HashMap::insert, HashMap::remove, HashMap::get
Insert(map, k, v) == [x \in DOMAIN map \cup {k} |-> IF x = k THEN v ELSE map[x]]
Remove(map, k) == [x \in DOMAIN map \ {k} |-> map[x]]
Get(map, k) == IF k \in DOMAIN map THEN Some(map[k]) ELSE None
EmptyMap == [x \in {} |-> 0]

Init ==
    /\ now = 0
    /\ ticks = 0
    /\ user_store = EmptyMap
    /\ session_store = EmptyMap
    /\ user_lock = NoOne
    /\ session_lock = NoOne
    /\ cpc = [c \in Creators |-> "idle"]
    /\ cname = [c \in Creators |-> <<>>]
    /\ cuser = [c \in Creators |-> None]
    /\ csession = [c \in Creators |-> None]
    /\ cresponse = [c \in Creators |-> None]
    /\ lpc = [l \in Lookups |-> "idle"]
    /\ larg = [l \in Lookups |-> None]
    /\ lsession = [l \in Lookups |-> None]
    /\ lresult = [l \in Lookups |-> None]
    /\ lfetched_at = [l \in Lookups |-> 0]
    /\ rpc = "wait"
    /\ rtodo = {}
    /\ expired_user_ids = {}
    /\ sweepExpired = {}
    /\ sweepLive = {}
    /\ sweepRemoved = {}
    /\ everRemoved = FALSE

\* ---------------------------------------------------------------- the clock
Tick(d) ==
    /\ ticks < MaxTicks
    /\ now' = now + d
    /\ ticks' = ticks + 1
    /\ UNCHANGED <<stores, locks, cvars, lvars, rvars>>

\* -------------------------------------------------- create_session_handler
BadRequest == [status |-> "BAD_REQUEST", cookie |-> None, body |-> <<>>]
Created(session_id, name) ==
    [status |-> "CREATED", cookie |-> Some(session_id), body |-> name]

\* lines 94-97: User::new draws the uuid, then validates the name
CreateStart(c, username) ==
    /\ cpc[c] = "idle"
    /\ LET user == User_new(username, new_v4(c, 1))
       IN  /\ cname' = [cname EXCEPT ![c] = username]
           /\ IF user.ok
              THEN /\ cuser' = [cuser EXCEPT ![c] = Some(user.value)]
                   /\ cpc' = [cpc EXCEPT ![c] = "lock_users"]
                   /\ UNCHANGED cresponse
              ELSE /\ cresponse' = [cresponse EXCEPT ![c] = Some(BadRequest)]
                   /\ cpc' = [cpc EXCEPT ![c] = "done"]
                   /\ UNCHANGED cuser
    /\ UNCHANGED <<clock, stores, locks, csession, lvars, rvars>>

\* lines 98-100: lock the user store and insert the user
CreateInsertUser(c) ==
    /\ cpc[c] = "lock_users"
    /\ user_lock = NoOne
    /\ user_lock' = c
    /\ LET user == Unwrap(cuser[c])
       IN  user_store' = Insert(user_store, user.uuid, user)
    /\ cpc' = [cpc EXCEPT ![c] = "new_session"]
    /\ UNCHANGED <<clock, session_store, session_lock, cname, cuser,
                   csession, cresponse, lvars, rvars>>

\* line 102: Session::new draws the session id and reads the clock
CreateNewSession(c) ==
    /\ cpc[c] = "new_session"
    /\ csession' = [csession EXCEPT ![c] =
           Some(Session_new(Unwrap(cuser[c]).uuid, TTL, new_v4(c, 2), now))]
    /\ cpc' = [cpc EXCEPT ![c] = "lock_sessions"]
    /\ UNCHANGED <<clock, stores, locks, cname, cuser, cresponse, lvars, rvars>>

\* lines 104-114: lock the session store, insert the session, build the reply
CreateInsertSession(c) ==
    /\ cpc[c] = "lock_sessions"
    /\ session_lock = NoOne
    /\ session_lock' = c
    /\ LET session == Unwrap(csession[c])
       IN  /\ session_store' = Insert(session_store, session.session_id, session)
           /\ cresponse' = [cresponse EXCEPT ![c] =
                  Some(Created(session.session_id, Unwrap(cuser[c]).name))]
    /\ cpc' = [cpc EXCEPT ![c] = "unlock_sessions"]
    /\ UNCHANGED <<clock, user_store, user_lock, cname, cuser,
                   csession, lvars, rvars>>

\* line 117: the guards drop in reverse order of declaration
CreateUnlockSessions(c) ==
    /\ cpc[c] = "unlock_sessions"
    /\ session_lock' = NoOne
    /\ cpc' = [cpc EXCEPT ![c] = "unlock_users"]
    /\ UNCHANGED <<clock, stores, user_lock, cname, cuser, csession,
                   cresponse, lvars, rvars>>

CreateUnlockUsers(c) ==
    /\ cpc[c] = "unlock_users"
    /\ user_lock' = NoOne
    /\ cpc' = [cpc EXCEPT ![c] = "done"]
    /\ UNCHANGED <<clock, stores, session_lock, cname, cuser,
                   csession, cresponse, lvars, rvars>>

\* --------------------------------------------------- get_user_info_handler
NotFound == [status |-> "NOT_FOUND", body |-> None]
Json(user) == [status |-> "OK", body |-> Some(user)]

\* line 147: no session id in the request rejects at once
LookupStart(l, session_id) ==
    /\ lpc[l] = "idle"
    /\ larg' = [larg EXCEPT ![l] = session_id]
    /\ IF session_id = None
       THEN /\ lresult' = [lresult EXCEPT ![l] = Some(NotFound)]
            /\ lpc' = [lpc EXCEPT ![l] = "done"]
       ELSE /\ lpc' = [lpc EXCEPT ![l] = "lock_sessions"]
            /\ UNCHANGED lresult
    /\ UNCHANGED <<clock, stores, locks, lsession, lfetched_at, cvars, rvars>>

\* lines 148-149: lock the session store and look the session up
LookupGetSession(l) ==
    /\ lpc[l] = "lock_sessions"
    /\ session_lock = NoOne
    /\ session_lock' = l
    /\ lfetched_at' = [lfetched_at EXCEPT ![l] = now]
    /\ LET session == Get(session_store, Unwrap(larg[l]))
       IN  /\ lsession' = [lsession EXCEPT ![l] = session]
           /\ IF session = None
              THEN /\ lresult' = [lresult EXCEPT ![l] = Some(NotFound)]
                   /\ lpc' = [lpc EXCEPT ![l] = "unlock_sessions"]
              ELSE /\ lpc' = [lpc EXCEPT ![l] = "lock_users"]
                   /\ UNCHANGED lresult
    /\ UNCHANGED <<clock, stores, user_lock, larg, cvars, rvars>>

\* looking the user up under the session's own id
UserKeyWrong(session) == session.session_id

\* the key line 151 looks up in the user store
UserKey(session) == session.user_id

\* a handler that reports the missing user as a fault of its own
UserReplyFault(user) ==
    IF user = None
    THEN Some([status |-> "INTERNAL_SERVER_ERROR", body |-> None])
    ELSE Some(Json(Unwrap(user)))

\* lines 151-156: the reply for the user found, the rejection otherwise
UserReply(user) ==
    IF user = None THEN Some(NotFound) ELSE Some(Json(Unwrap(user)))

\* lines 150-153: lock the user store and look the session's user up
LookupGetUser(l) ==
    /\ lpc[l] = "lock_users"
    /\ user_lock = NoOne
    /\ user_lock' = l
    /\ LET user == Get(user_store, UserKey(Unwrap(lsession[l])))
       IN  lresult' = [lresult EXCEPT ![l] = UserReply(user)]
    /\ lpc' = [lpc EXCEPT ![l] = "unlock_users"]
    /\ UNCHANGED <<clock, stores, session_lock, larg, lsession, lfetched_at,
                   cvars, rvars>>

\* the user store guard drops first
LookupUnlockUsers(l) ==
    /\ lpc[l] = "unlock_users"
    /\ user_lock' = NoOne
    /\ lpc' = [lpc EXCEPT ![l] = "unlock_sessions"]
    /\ UNCHANGED <<clock, stores, session_lock, larg, lsession,
                   lresult, lfetched_at, cvars, rvars>>

\* the session store guard drops and with it the borrowed session
LookupUnlockSessions(l) ==
    /\ lpc[l] = "unlock_sessions"
    /\ session_lock' = NoOne
    /\ lsession' = [lsession EXCEPT ![l] = None]
    /\ lfetched_at' = [lfetched_at EXCEPT ![l] = 0]
    /\ lpc' = [lpc EXCEPT ![l] = "done"]
    /\ UNCHANGED <<clock, stores, user_lock, larg, lresult, cvars, rvars>>

\* -------------------------------------------------------- clean_up_sessions
\* the filter_map closure with its branches exchanged
ScanVisitInverted(acc, session, t) ==
    IF is_expired(session, t) THEN acc ELSE acc \cup {session.user_id}

\* lines 129-135: the filter_map closure, applied to one session at time t
ScanVisit(acc, session, t) ==
    IF is_expired(session, t) THEN acc \cup {session.user_id} ELSE acc

\* a retain closure that keeps every session
RetainKeepsAll(session, t) == TRUE

\* line 138: the retain closure, applied to one session at time t
RetainKeeps(session, t) == ~is_expired(session, t)

\* line 123: interval.tick() completes
ReaperTick ==
    /\ rpc = "wait"
    /\ rpc' = "lock_sessions"
    /\ UNCHANGED <<clock, stores, locks, cvars, lvars, rtodo,
                   expired_user_ids, sweepExpired, sweepLive, sweepRemoved,
                   everRemoved>>

\* line 125
ReaperLockSessions ==
    /\ rpc = "lock_sessions"
    /\ session_lock = NoOne
    /\ session_lock' = Reaper
    /\ rpc' = "lock_users"
    /\ UNCHANGED <<clock, stores, user_lock, cvars, lvars, rtodo,
                   expired_user_ids, sweepExpired, sweepLive, sweepRemoved,
                   everRemoved>>

\* line 126; the iteration of line 128 starts over the whole session store
ReaperLockUsers ==
    /\ rpc = "lock_users"
    /\ user_lock = NoOne
    /\ user_lock' = Reaper
    /\ rpc' = "scan"
    /\ rtodo' = DOMAIN session_store
    /\ expired_user_ids' = {}
    /\ sweepExpired' = {session_store[s] : s \in
                           {x \in DOMAIN session_store :
                               session_store[x].expires_at < now}}
    /\ sweepLive' = {[session |-> session_store[s],
                      user |-> Get(user_store, session_store[s].user_id)] :
                        s \in {x \in DOMAIN session_store :
                                  ~(now > session_store[x].expires_at)}}
    /\ sweepRemoved' = {}
    /\ UNCHANGED <<clock, stores, session_lock, cvars, lvars,
                   everRemoved>>

\* lines 128-136: one session of the iteration; the HashMap fixes no order
\* and every call of is_expired reads the clock again
ReaperScan(s) ==
    /\ rpc = "scan"
    /\ s \in rtodo
    /\ expired_user_ids' = ScanVisit(expired_user_ids, session_store[s], now)
    /\ rtodo' = rtodo \ {s}
    /\ UNCHANGED <<clock, stores, locks, cvars, lvars, rpc,
                   sweepExpired, sweepLive, sweepRemoved, everRemoved>>

\* line 136: collect() ends the scan; retain starts over the whole store
ReaperScanEnd ==
    /\ rpc = "scan"
    /\ rtodo = {}
    /\ rpc' = "retain"
    /\ rtodo' = DOMAIN session_store
    /\ UNCHANGED <<clock, stores, locks, cvars, lvars,
                   expired_user_ids, sweepExpired, sweepLive, sweepRemoved,
                   everRemoved>>

\* line 138: one session of retain
ReaperRetain(s) ==
    /\ rpc = "retain"
    /\ s \in rtodo
    /\ rtodo' = rtodo \ {s}
    /\ IF RetainKeeps(session_store[s], now)
       THEN UNCHANGED <<session_store, sweepRemoved, everRemoved>>
       ELSE /\ session_store' = Remove(session_store, s)
            /\ sweepRemoved' = sweepRemoved \cup {session_store[s]}
            /\ everRemoved' = TRUE
    /\ UNCHANGED <<clock, user_store, locks, cvars, lvars, rpc,
                   expired_user_ids, sweepExpired, sweepLive>>

\* lines 140-142: remove the users collected by the scan
ReaperRemoveUsers ==
    /\ rpc = "retain"
    /\ rtodo = {}
    /\ user_store' = [u \in DOMAIN user_store \ expired_user_ids |->
                         user_store[u]]
    /\ everRemoved' = (everRemoved \/
                       (DOMAIN user_store \cap expired_user_ids # {}))
    /\ expired_user_ids' = {}
    /\ rpc' = "unlock_users"
    /\ UNCHANGED <<clock, session_store, locks, cvars, lvars, rtodo,
                   sweepExpired, sweepLive, sweepRemoved>>

\* line 143: the guards drop in reverse order of declaration
ReaperUnlockUsers ==
    /\ rpc = "unlock_users"
    /\ user_lock' = NoOne
    /\ rpc' = "unlock_sessions"
    /\ UNCHANGED <<clock, stores, session_lock, cvars, lvars, rtodo,
                   expired_user_ids, sweepExpired, sweepLive, sweepRemoved,
                   everRemoved>>

\* a session store guard that outlives the loop body
ReaperUnlockSessionsKept ==
    /\ rpc = "unlock_sessions"
    /\ rpc' = "wait"
    /\ sweepExpired' = {}
    /\ sweepLive' = {}
    /\ sweepRemoved' = {}
    /\ UNCHANGED <<clock, stores, locks, cvars, lvars, rtodo,
                   expired_user_ids, everRemoved>>

ReaperUnlockSessions ==
    /\ rpc = "unlock_sessions"
    /\ session_lock' = NoOne
    /\ rpc' = "wait"
    /\ sweepExpired' = {}
    /\ sweepLive' = {}
    /\ sweepRemoved' = {}
    /\ UNCHANGED <<clock, stores, user_lock, cvars, lvars, rtodo,
                   expired_user_ids, everRemoved>>

\* ---------------------------------------------------------- specification
CreateStep(c) ==
    \/ \E username \in RequestNames : CreateStart(c, username)
    \/ CreateInsertUser(c)
    \/ CreateNewSession(c)
    \/ CreateInsertSession(c)
    \/ CreateUnlockSessions(c)
    \/ CreateUnlockUsers(c)

LookupStep(l) ==
    \/ \E session_id \in {None} \cup {Some(u) : u \in CookieUuids} :
           LookupStart(l, session_id)
    \/ LookupGetSession(l)
    \/ LookupGetUser(l)
    \/ LookupUnlockUsers(l)
    \/ LookupUnlockSessions(l)

ReaperStep ==
    \/ ReaperTick
    \/ ReaperLockSessions
    \/ ReaperLockUsers
    \/ \E s \in DOMAIN session_store : ReaperScan(s)
    \/ ReaperScanEnd
    \/ \E s \in DOMAIN session_store : ReaperRetain(s)
    \/ ReaperRemoveUsers
    \/ ReaperUnlockUsers
    \/ ReaperUnlockSessions

Next ==
    \/ \E d \in Deltas : Tick(d)
    \/ \E c \in Creators : CreateStep(c)
    \/ \E l \in Lookups : LookupStep(l)
    \/ ReaperStep

Spec == Init /\ [][Next]_vars

\* Every thread that can take a step eventually takes it, and the clock
\* advances while the model lets it
FairSpec ==
    /\ Spec
    /\ \A c \in Creators : WF_vars(CreateStep(c))
    /\ \A l \in Lookups : WF_vars(LookupStep(l))
    /\ WF_vars(ReaperStep)
    /\ WF_vars(\E d \in Deltas : Tick(d))

\* ------------------------------------------------------------- the claims
Responded(l) == lresult[l] # None

HasCreated(c) ==
    cresponse[c] # None /\ Unwrap(cresponse[c]).status = "CREATED"

\* the sessions that reference user u
SessionsOf(u) == {s \in DOMAIN session_store : session_store[s].user_id = u}

\* C1: a lookup that finds the session in the session store at a time later
\* than the session's expires_at answers NotFound, swept or not.
C1_ExpiredSessionNotFound ==
    \A l \in Lookups :
        (/\ Responded(l)
         /\ lsession[l] # None
         /\ lfetched_at[l] > Unwrap(lsession[l]).expires_at)
        => lresult[l] = Some(NotFound)

\* C2: while a lookup holds the session store lock, every session in the
\* session store has a user_id that is a key of the user store.
C2_SessionResolvesToUser ==
    \A l \in Lookups :
        session_lock = l =>
            \A s \in DOMAIN session_store :
                session_store[s].user_id \in DOMAIN user_store

\* a lookup holds both locks over a non-empty session store after a sweep
\* removed entries
C2_Witness ==
    \E l \in Lookups :
        /\ session_lock = l
        /\ user_lock = l
        /\ session_store # EmptyMap
        /\ everRemoved

\* C3: a lookup with the session id a successful create request issued, made
\* while that session is in the session store and not expired, returns the
\* user the same request created: same user id, same username.
C3_LookupReturnsCreatedUser ==
    \A c \in Creators : \A l \in Lookups :
        (/\ HasCreated(c)
         /\ larg[l] = Unwrap(cresponse[c]).cookie
         /\ session_lock = l
         /\ Responded(l)
         /\ Unwrap(larg[l]) \in DOMAIN session_store
         /\ ~(now > session_store[Unwrap(larg[l])].expires_at))
        => /\ lresult[l] = Some(Json(Unwrap(cuser[c])))
           /\ Unwrap(Unwrap(lresult[l]).body).uuid = new_v4(c, 1)
           /\ Unwrap(Unwrap(lresult[l]).body).name = cname[c]

\* a lookup answered with the user of the second create request while the
\* first request's user is in the store as well
C3_Witness ==
    \E l \in Lookups :
        /\ HasCreated(<<"create", 2>>)
        /\ larg[l] = Unwrap(cresponse[<<"create", 2>>]).cookie
        /\ session_lock = l
        /\ Responded(l)
        /\ Unwrap(lresult[l]).status = "OK"
        /\ Cardinality(DOMAIN user_store) = 2

SweepDone == rpc \in {"unlock_users", "unlock_sessions"}

\* C4: when a sweep completes, every session whose expires_at was less than
\* the time at which the sweep started is absent from the session store and
\* its user is absent from the user store.
C4_SweepRemovesExpired ==
    SweepDone =>
        \A session \in sweepExpired :
            /\ session.session_id \notin DOMAIN session_store
            /\ session.user_id \notin DOMAIN user_store

\* a sweep that started with an expired session and a live one completed
C4_Witness ==
    /\ SweepDone
    /\ sweepExpired # {}
    /\ session_store # EmptyMap

\* C5: when a sweep completes, the user of every session that sweep removed
\* from the session store is absent from the user store.
C5_RemovedSessionLosesUser ==
    SweepDone =>
        \A session \in sweepRemoved :
            session.user_id \notin DOMAIN user_store

\* the user ids the create requests can draw
UserUuids == {new_v4(c, 1) : c \in Creators}

\* user u is stored and a session that references it has expired
ExpiredUser(u) ==
    /\ u \in DOMAIN user_store
    /\ \E s \in SessionsOf(u) : now > session_store[s].expires_at

\* C6: under fair scheduling, no user stays in the user store forever once
\* its session has expired: it is eventually removed.
C6_ExpiredUserEventuallyRemoved ==
    \A u \in UserUuids : ExpiredUser(u) ~> (u \notin DOMAIN user_store)

\* C7: a lookup that finds a session that is not expired in the session
\* store also finds that session's user; it never answers NotFound for it,
\* whatever the clean-up task does around it.
C7_LiveSessionHasUser ==
    \A l \in Lookups :
        (/\ lpc[l] = "unlock_users"
         /\ lsession[l] # None
         /\ ~(now > Unwrap(lsession[l]).expires_at))
        => /\ lresult[l] # Some(NotFound)
           /\ Unwrap(lsession[l]).user_id \in DOMAIN user_store

\* a lookup found a live session and its user while the clean-up task,
\* woken up with an expired session to remove, waits for the session store
C7_Witness ==
    \E l \in Lookups :
        /\ lpc[l] = "unlock_users"
        /\ lsession[l] # None
        /\ ~(now > Unwrap(lsession[l]).expires_at)
        /\ Unwrap(lresult[l]).status = "OK"
        /\ rpc = "lock_sessions"
        /\ \E s \in DOMAIN session_store : now > session_store[s].expires_at

AllCreated == \A c \in Creators : cpc[c] = "done" /\ HasCreated(c)

\* C8: when all the create requests have completed with valid usernames and
\* no sweep removed anything, the user store holds one user per request, the
\* session store one session per request, all ids are distinct and every
\* session references the user of its own request.
C8_NoLostInsert ==
    (AllCreated /\ ~everRemoved) =>
        /\ Cardinality(DOMAIN user_store) = Cardinality(Creators)
        /\ Cardinality(DOMAIN session_store) = Cardinality(Creators)
        /\ \A c \in Creators :
               LET user == Unwrap(cuser[c])
                   session == Unwrap(csession[c])
               IN  /\ Get(user_store, user.uuid) = Some(user)
                   /\ Get(session_store, session.session_id) = Some(session)
                   /\ session.user_id = user.uuid
        /\ \A c, d \in Creators :
               c # d => /\ Unwrap(cuser[c]).uuid # Unwrap(cuser[d]).uuid
                        /\ Unwrap(csession[c]).session_id #
                               Unwrap(csession[d]).session_id

\* both requests completed, with the same username
C8_Witness ==
    /\ AllCreated
    /\ ~everRemoved
    /\ \A c \in Creators : cname[c] = bob

\* C9: a create request whose username fails validation answers
\* BAD_REQUEST in the step that validates it, changes neither store and
\* takes no lock, then or later.
C9_InvalidNameNoEffect ==
    /\ [][\A c \in Creators :
            (cpc[c] = "idle" /\ cpc'[c] # "idle" /\ ~is_valid(cname'[c]))
            => /\ cpc'[c] = "done"
               /\ cresponse'[c] = Some(BadRequest)
               /\ UNCHANGED <<user_store, session_store, user_lock,
                              session_lock>>]_vars
    /\ [](\A c \in Creators :
            (cpc[c] # "idle" /\ ~is_valid(cname[c]))
            => /\ cpc[c] = "done"
               /\ user_lock # c
               /\ session_lock # c
               /\ new_v4(c, 1) \notin DOMAIN user_store
               /\ new_v4(c, 2) \notin DOMAIN session_store)

\* a request with an invalid username was answered while the other request
\* has its user and session in the stores
C9_Witness ==
    \E c \in Creators :
        /\ cpc[c] = "done"
        /\ ~is_valid(cname[c])
        /\ cresponse[c] = Some(BadRequest)
        /\ user_store # EmptyMap
        /\ session_store # EmptyMap

\* C10: whenever both store locks are free, every user in the user store is
\* referenced by a session in the session store.
C10_UserHasSession ==
    (user_lock = NoOne /\ session_lock = NoOne) =>
        \A u \in DOMAIN user_store : SessionsOf(u) # {}

\* C11: when a sweep completes, every session that was not expired when the
\* sweep started is still in the session store and its user still in the
\* user store, both with the values they had.
C11_SweepKeepsLive ==
    SweepDone =>
        \A p \in sweepLive :
            /\ Get(session_store, p.session.session_id) = Some(p.session)
            /\ Get(user_store, p.session.user_id) = p.user

\* every entry of map old is in map new with the same value
Preserved(old, new) ==
    \A k \in DOMAIN old : k \in DOMAIN new /\ new[k] = old[k]

\* the entries of old that are still in new have the same value
Unmodified(old, new) ==
    \A k \in DOMAIN old \cap DOMAIN new : new[k] = old[k]

\* C12: only the clean-up task removes entries.  A step of a lookup leaves
\* both stores unchanged; a step of a create request adds at most one new
\* entry to a store and keeps every existing entry; the clean-up task adds
\* nothing; and no step of any thread changes the value of an entry that
\* stays in its store.
C12_OnlyReaperRemoves ==
    [][/\ Unmodified(user_store, user_store')
       /\ Unmodified(session_store, session_store')
       /\ (<<rpc, rtodo>>' = <<rpc, rtodo>>)
              => /\ Preserved(user_store, user_store')
                 /\ Preserved(session_store, session_store')
       /\ (<<rpc, rtodo>>' # <<rpc, rtodo>>)
              => /\ DOMAIN user_store' \subseteq DOMAIN user_store
                 /\ DOMAIN session_store' \subseteq DOMAIN session_store
       /\ (lvars' # lvars) => UNCHANGED <<user_store, session_store>>
       /\ (cvars' # cvars)
              => /\ Cardinality(DOMAIN user_store' \ DOMAIN user_store) <= 1
                 /\ Cardinality(DOMAIN session_store' \
                                    DOMAIN session_store) <= 1
      ]_vars

\* both create requests have inserted their user and session and the lookup
\* has answered with a user
C12_Witness ==
    /\ Cardinality(DOMAIN user_store) = 2
    /\ Cardinality(DOMAIN session_store) = 2
    /\ \E l \in Lookups : Responded(l) /\ Unwrap(lresult[l]).status = "OK"

\* C13: under fair scheduling the clean-up task completes a sweep again and
\* again, whatever the requests do.
C13_ReaperSweepsForever == []<>(rpc = "unlock_users")

\* C17: while the clean-up task waits for its next tick, or has been woken
\* and has not locked anything yet, it holds neither store lock.
C17_ReaperWaitsUnlocked ==
    rpc \in {"wait", "lock_sessions"} =>
        user_lock # Reaper /\ session_lock # Reaper

\* the clean-up task waits again after a sweep that removed entries
C17_Witness ==
    /\ rpc = "wait"
    /\ everRemoved
    /\ user_lock = NoOne
    /\ session_lock = NoOne

\* thread p holds the session store lock and waits for the user store lock
WaitsForUsers(p) ==
    /\ session_lock = p
    /\ \/ p = Reaper /\ rpc = "lock_users"
       \/ p \in Lookups /\ lpc[p] = "lock_users"

\* thread c holds the user store lock and waits for the session store lock
WaitsForSessions(c) ==
    /\ user_lock = c
    /\ c \in Creators
    /\ cpc[c] = "lock_sessions"

\* C18: no state has one thread holding the user store lock and waiting for
\* the session store lock while another holds the session store lock and
\* waits for the user store lock.
C18_NoDeadlock ==
    ~ \E c \in Creators : \E p \in Lookups \cup {Reaper} :
          WaitsForSessions(c) /\ WaitsForUsers(p)

\* C19: no two sessions in the session store reference the same user id; the
\* step of a create request that inserts its user adds exactly that one user,
\* and the step that inserts its session adds exactly one session, whose
\* user_id is the id of the user the same request inserted and which is the
\* only session of that user.
C19_OneSessionPerUser ==
    /\ [](\A s, t \in DOMAIN session_store :
              s # t => session_store[s].user_id # session_store[t].user_id)
    /\ [][\A c \in Creators :
            /\ (cpc[c] = "lock_users" /\ cpc'[c] = "new_session")
                   => /\ DOMAIN user_store' \ DOMAIN user_store =
                             {Unwrap(cuser[c]).uuid}
                      /\ session_store' = session_store
            /\ (cpc[c] = "lock_sessions" /\ cpc'[c] = "unlock_sessions")
                   => LET added == DOMAIN session_store' \ DOMAIN session_store
                          uid == Unwrap(cuser[c]).uuid
                      IN  /\ Cardinality(added) = 1
                          /\ user_store' = user_store
                          /\ uid \in DOMAIN user_store
                          /\ \A s \in added :
                                 session_store'[s].user_id = uid
                          /\ {s \in DOMAIN session_store' :
                                 session_store'[s].user_id = uid} = added
         ]_vars

\* two sessions, each with its own user, are in the stores
C19_Witness ==
    /\ Cardinality(DOMAIN session_store) = 2
    /\ Cardinality({session_store[s].user_id : s \in DOMAIN session_store}) = 2
    /\ \A c \in Creators : cpc[c] = "done"

\* some stored user other than u has the name n
NameHeld(n, u) ==
    \E k \in DOMAIN user_store : k # u /\ user_store[k].name = n

\* C20: a create request with a valid username that a stored user already
\* has is accepted, inserts a new user under an id of its own and a session
\* for it, and leaves the earlier user and its session as they were.
C20_NamesNotUnique ==
    /\ [][\A c \in Creators :
            /\ (cpc[c] = "idle" /\ cpc'[c] # "idle" /\ is_valid(cname'[c])
                  /\ NameHeld(cname'[c], new_v4(c, 1)))
                   => /\ cpc'[c] = "lock_users"
                      /\ cresponse'[c] = None
            /\ (cpc[c] = "lock_users" /\ cpc'[c] = "new_session"
                  /\ NameHeld(cname[c], Unwrap(cuser[c]).uuid))
                   => /\ Unwrap(cuser[c]).uuid \notin DOMAIN user_store
                      /\ Preserved(user_store, user_store')
                      /\ Get(user_store', Unwrap(cuser[c]).uuid) = cuser[c]
            /\ (cpc[c] = "lock_sessions" /\ cpc'[c] = "unlock_sessions"
                  /\ NameHeld(cname[c], Unwrap(cuser[c]).uuid))
                   => /\ Preserved(session_store, session_store')
                      /\ Get(session_store', Unwrap(csession[c]).session_id)
                             = csession[c]
                      /\ HasCreated(c)'
         ]_vars
    /\ [](\A c, d \in Creators :
            (c # d /\ cpc[c] = "done" /\ cpc[d] = "done" /\ HasCreated(c)
               /\ HasCreated(d) /\ cname[c] = cname[d] /\ ~everRemoved)
            => /\ Unwrap(cuser[c]).uuid # Unwrap(cuser[d]).uuid
               /\ Get(user_store, Unwrap(cuser[c]).uuid) = cuser[c]
               /\ Get(user_store, Unwrap(cuser[d]).uuid) = cuser[d]
               /\ Get(session_store, Unwrap(csession[c]).session_id)
                      = csession[c]
               /\ Get(session_store, Unwrap(csession[d]).session_id)
                      = csession[d])

\* two users with the same name are stored, each with a session
C20_Witness ==
    \E u, v \in DOMAIN user_store :
        /\ u # v
        /\ user_store[u].name = user_store[v].name
        /\ SessionsOf(u) # {}
        /\ SessionsOf(v) # {}

\* ------------------------------------------- the lookup over any two stores
\* get_user_info_handler alone, started over any pair of stores built from
\* two users and their sessions, among them the pairs in which a session is
\* stored and its user is not: the fault lines 151-156 answer.
StoredUser(c, name) == User_new(name, new_v4(c, 1)).value
StoredSession(c) == Session_new(new_v4(c, 1), TTL, new_v4(c, 2), 0)

AnyUserStores ==
    {[u \in ids |-> IF u = new_v4(<<"create", 1>>, 1)
                    THEN StoredUser(<<"create", 1>>, bob)
                    ELSE StoredUser(<<"create", 2>>, ab7)] :
        ids \in SUBSET UserUuids}

AnySessionStores ==
    {[s \in {new_v4(c, 2) : c \in cs} |->
          IF s = new_v4(<<"create", 1>>, 2)
          THEN StoredSession(<<"create", 1>>)
          ELSE StoredSession(<<"create", 2>>)] :
        cs \in SUBSET Creators}

LookupInit ==
    /\ now = 0
    /\ ticks = 0
    /\ user_store \in AnyUserStores
    /\ session_store \in AnySessionStores
    /\ user_lock = NoOne
    /\ session_lock = NoOne
    /\ cpc = [c \in Creators |-> "idle"]
    /\ cname = [c \in Creators |-> <<>>]
    /\ cuser = [c \in Creators |-> None]
    /\ csession = [c \in Creators |-> None]
    /\ cresponse = [c \in Creators |-> None]
    /\ lpc = [l \in Lookups |-> "idle"]
    /\ larg = [l \in Lookups |-> None]
    /\ lsession = [l \in Lookups |-> None]
    /\ lresult = [l \in Lookups |-> None]
    /\ lfetched_at = [l \in Lookups |-> 0]
    /\ rpc = "wait"
    /\ rtodo = {}
    /\ expired_user_ids = {}
    /\ sweepExpired = {}
    /\ sweepLive = {}
    /\ sweepRemoved = {}
    /\ everRemoved = FALSE

LookupNext == \E l \in Lookups : LookupStep(l)

LookupSpec == LookupInit /\ [][LookupNext]_vars

\* the request of lookup l carries no session id, or one that is not in the
\* session store, or one whose session references a user that is not in the
\* user store
NoSessionId(l) == larg[l] = None
UnknownSession(l) ==
    larg[l] # None /\ Unwrap(larg[l]) \notin DOMAIN session_store
UserMissing(l) ==
    /\ larg[l] # None
    /\ Unwrap(larg[l]) \in DOMAIN session_store
    /\ session_store[Unwrap(larg[l])].user_id \notin DOMAIN user_store

\* C14: a lookup with no session id, with a session id that is not in the
\* session store, or with a session whose user is not in the user store
\* ends with the same NotFound, holds no lock afterwards and changes neither
\* store.
C14_NotFoundAlike ==
    /\ [](\A l \in Lookups :
            (lpc[l] = "done"
               /\ (NoSessionId(l) \/ UnknownSession(l) \/ UserMissing(l)))
            => /\ lresult[l] = Some(NotFound)
               /\ user_lock # l
               /\ session_lock # l)
    /\ [][UNCHANGED <<user_store, session_store>>]_vars

\* a lookup for a stored session whose user is missing has ended in NotFound
C14_Witness ==
    \E l \in Lookups :
        /\ lpc[l] = "done"
        /\ UserMissing(l)
        /\ lresult[l] = Some(NotFound)

\* ------------------------------------------------ validation of usernames
\* User::new, and through it Username::new, applied by one create request to
\* every name of a family that crosses both limits of the length rule in
\* characters and in bytes: i times "a", then j times the two-byte
\* alphanumeric e-acute, then at most one "-".
MaxNameChars == 21      \* longest name tried, in characters

RECURSIVE Repeat(_, _)
Repeat(ch, n) == IF n = 0 THEN <<>> ELSE <<ch>> \o Repeat(ch, n - 1)

BoundaryNames ==
    {Repeat(ch_a, i) \o Repeat(ch_eacute, j) \o Repeat(ch_dash, d) :
        <<i, j, d>> \in {t \in (0..MaxNameChars) \X (0..MaxNameChars) \X (0..1) :
                            t[1] + t[2] + t[3] <= MaxNameChars}}

NameNext == \E username \in BoundaryNames : CreateStart(<<"create", 1>>, username)

NameSpec == Init /\ [][NameNext]_vars

\* the rule as the error message of Username::new words it: between 3 and 20
\* characters long, only alphanumeric characters
RuleInCharacters(s) ==
    Len(s) >= MinLen /\ Len(s) <= MaxLen /\ AllAlphanumeric(s)

Validated(c) == cpc[c] # "idle"

\* C15: for every name of 3 to 20 characters that are all alphanumeric,
\* whatever their width in bytes, construction succeeds and the name of the
\* user is the input unchanged.
C15_ValidNameAccepted ==
    \A c \in Creators :
        (Validated(c) /\ RuleInCharacters(cname[c]))
        => /\ cuser[c] # None
           /\ Unwrap(cuser[c]).name = cname[c]
           /\ cresponse[c] # Some(BadRequest)

\* C16: for every name of fewer than 3 or more than 20 characters, or with a
\* character that is not alphanumeric, construction fails; no user exists
\* whose name breaks the rule counted in characters.
C16_InvalidNameRejected ==
    \A c \in Creators :
        /\ (Validated(c) /\ ~RuleInCharacters(cname[c]))
           => cuser[c] = None /\ cresponse[c] = Some(BadRequest)
        /\ cuser[c] # None => RuleInCharacters(Unwrap(cuser[c]).name)

====
